---- MODULE Spec2Model ----
(***************************************************************************)
(* The outline construction of src/providers/structurelib/latex.ts:        *)
(* construct -> constructFile/parseNode (per-file extraction, recursive    *)
(* over inclusion macros) -> insertSubFile -> nestNonSection ->            *)
(* nestSection -> addFloatNumber -> addSectionNumber.                      *)
(*                                                                         *)
(* TeXElement objects live in a heap (a sequence of records, an element is *)
(* its index), so that two references to the same object are the same      *)
(* index and an in-place mutation is seen through both.  Labels are        *)
(* sequences of tokens; string operations act on the tokens.               *)
(***************************************************************************)
EXTENDS Integers, Sequences, FiniteSets, TLC

\* ---------------------------------------------------------------- bounds
\* AST nodes over all files read in one run (nested nodes included).
MaxNodes == 3
\* constructFile calls in progress that are followed.  Two files nest no
\* deeper than two calls unless a file is entered while its own walk is in
\* progress; structs then still lacks the file (line 93 comes after the
\* walk), the inner call reads the same nodes and makes the same call, and
\* the calls never end: pc "recursing".
MaxDepth == 3
\* Legacy child directives in one file.
MaxRnw == 1

\* ------------------------------------------------------ program constants
\* waited >= 20 forces the refresh.
MaxWait == 20
\* secIndex[name] === undefined.
NoRank == -1

\* The file paths of a run.
Files == {"A", "B"}
\* undefined, as a file path.
NoFile == "undefined"

\* ----------------------------------------------------------- configuration
\* 'view.outline.sections': one name per depth, index = rank.
Hierarchy == <<"chapter", "section", "subsection">>
\* config.macros.secs
Secs == {Hierarchy[i] : i \in 1..Len(Hierarchy)}
\* config.macros.cmds ('view.outline.commands')
Cmds == {"label"}
\* config.macros.envs with 'view.outline.floats.enabled'
Envs == {"figure", "table", "frame"}
\* 'view.outline.floats.caption.enabled'
CaptionEnabled == TRUE
\* The macros of the three inclusion branches of parseNode.
InputMacros == {"input", "InputIfFileExists", "include", "SweaveInput", "subfile", "loadglsentries", "markdownInput"}
ImportMacros == {"import", "inputfrom", "includefrom"}
SubImportMacros == {"subimport", "subinputfrom", "subincludefrom"}

\* config.secIndex[name]
secIndex(name) ==
    IF \E i \in 1..Len(Hierarchy) : Hierarchy[i] = name
    THEN (CHOOSE i \in 1..Len(Hierarchy) : Hierarchy[i] = name) - 1
    ELSE NoRank

\* a <= b and a > b on ranks, false when either side is undefined.
RankLeq(a, b) == a # NoRank /\ b # NoRank /\ a <= b
RankGt(a, b) == a # NoRank /\ b # NoRank /\ a > b

\* ------------------------------------------------------------ label tokens
Str(s) == [k |-> "str", s |-> s, n |-> <<>>]
Colon == [k |-> "colon", s |-> ":", n |-> <<>>]
\* ' ' + counter.toString()
Num(c) == [k |-> "num", s |-> "", n |-> <<c>>]
\* a dotted section number followed by ' '
SecNum(ns) == [k |-> "secnum", s |-> "", n |-> ns]
\* '* '
StarTok == [k |-> "star", s |-> "*", n |-> <<>>]

\* label.split(':')
RECURSIVE Split(_)
Split(label) ==
    IF \A i \in 1..Len(label) : label[i] # Colon
    THEN <<label>>
    ELSE LET i == CHOOSE j \in 1..Len(label) :
                    label[j] = Colon /\ \A m \in 1..(j - 1) : label[m] # Colon
         IN <<SubSeq(label, 1, i - 1)>> \o Split(SubSeq(label, i + 1, Len(label)))

\* parts.join(':')
RECURSIVE Join(_)
Join(parts) ==
    IF Len(parts) = 1 THEN parts[1]
    ELSE parts[1] \o <<Colon>> \o Join(Tail(parts))

\* ------------------------------------------------------------- AST nodes
\* A node of the parsed document: a macro or an environment.  A file's AST
\* is the list of its nodes in the order parseNode visits them (a node,
\* then its content); parent is the place in that list of the environment
\* whose content holds the node (0: ast.content itself).  star: args[0]
\* holds something.  target: what resolveFile finds for the argument
\* (NoFile: nothing).  caption: the tokens of the caption.
MkNode(type, name, star, target, caption, parent) ==
    [type |-> type, name |-> name, star |-> star, target |-> target,
     caption |-> caption, parent |-> parent]

\* The document nodes explored: every sectioning macro, starred or not, an
\* \input of every file, and figure / macro environments.
SectionNodes(p) ==
    {MkNode("macro", n, s, NoFile, <<>>, p) : n \in Secs, s \in BOOLEAN}
InputNodes(p) ==
    {MkNode("macro", "input", FALSE, f, <<>>, p) : f \in Files}
EnvNodes(p) ==
    {MkNode("environment", "figure", FALSE, NoFile, <<>>, p),
     MkNode("environment", "figure", FALSE, NoFile, <<Str("a"), Colon, Str("b")>>, p),
     MkNode("environment", "macro", FALSE, NoFile, <<>>, p)}
Nodes(p) == SectionNodes(p) \cup InputNodes(p) \cup EnvNodes(p)

\* The environments still open after the last node of ast, innermost first
\* from place i: where the next node of the document can be.
RECURSIVE OpenFrom(_, _)
OpenFrom(ast, i) ==
    IF i = 0 THEN {0}
    ELSE (IF ast[i].type = "environment" THEN {i} ELSE {}) \cup OpenFrom(ast, ast[i].parent)
Open(ast) == OpenFrom(ast, Len(ast))

\* What the content/AST source holds for a file, as far as the run has read
\* it: ok (content and AST are there), the nodes read so far, and whether
\* the last of them ends the document.
\* rnw: what parseRnwChildCommand finds in the content, in the order of the
\* lines: per child directive, the file it names and its line.
Absent == [ok |-> FALSE, ast |-> <<>>, done |-> TRUE, rnw |-> <<>>]
Present == [ok |-> TRUE, ast |-> <<>>, done |-> FALSE, rnw |-> <<>>]

\* The child directives a document can hold: at most MaxRnw, on lines 0 to
\* MaxNodes - 1, in the order of their lines.  The node at place i of a
\* file's AST starts on line i, so line 0 is before every node.
Directives == [subFile : Files, line : 0..(MaxNodes - 1)]
RnwQueues ==
    {q \in UNION {[1..n -> Directives] : n \in 0..MaxRnw} :
        \A i \in 1..(Len(q) - 1) : q[i].line <= q[i + 1].line}

\* ------------------------------------------------------------- elements
\* A TeXElement; children holds heap indices.
MkElement(type, name, label, file) ==
    [type |-> type, name |-> name, label |-> label, filePath |-> file,
     children |-> <<>>]

\* env.charAt(0).toUpperCase() + env.slice(1)
Capitalize(env) ==
    CASE env = "figure" -> "Figure"
      [] env = "table" -> "Table"
      [] env = "frame" -> "Frame"
      [] env = "macro" -> "Macro"
      [] env = "environment" -> "Environment"
      [] OTHER -> env

\* The text of the argument that resolveFile resolves to path f.
ArgOf(f) ==
    CASE f = "A" -> "a" [] f = "B" -> "b" [] OTHER -> f

\* Capitalized env name + (caption enabled && caption ? ': ' + caption : '')
FloatLabel(node) ==
    <<Str(Capitalize(node.name))>>
    \o (IF CaptionEnabled /\ node.caption # <<>> THEN <<Colon>> \o node.caption ELSE <<>>)

\* The if / else-if chain of parseNode: the element a node produces, if any.
\* sub is config.subFile.
NoElement == [has |-> FALSE, el |-> MkElement("", "", <<>>, NoFile)]
Produced(el) == [has |-> TRUE, el |-> el]
SubFileElement(node, file, sub) ==
    IF node.target # NoFile
    THEN Produced(MkElement("SubFile", node.name,
                            <<Str(IF sub THEN node.target ELSE ArgOf(node.target))>>, file))
    ELSE NoElement
Classify(node, file, sub) ==
    IF node.type = "macro" /\ node.name \in Secs
    THEN Produced(MkElement(IF node.star THEN "SectionAst" ELSE "Section",
                            node.name, <<Str("title")>>, file))
    ELSE IF node.type = "macro" /\ node.name \in Cmds
    THEN Produced(MkElement("Command", node.name,
                            <<Str(node.name)>>
                            \o (IF node.caption # <<>> THEN <<Colon>> \o node.caption ELSE <<>>),
                            file))
    ELSE IF node.type = "environment" /\ node.name = "frame"
    THEN Produced(MkElement("Environment", node.name, FloatLabel(node), file))
    ELSE IF node.type = "environment"
            /\ \/ node.name \in {"figure", "figure*"} /\ "figure" \in Envs
               \/ node.name \in {"table", "table*"} /\ "table" \in Envs
    THEN LET env == CASE node.name = "figure*" -> "figure"
                      [] node.name = "table*" -> "table"
                      [] OTHER -> node.name
         IN Produced(MkElement("Environment", env, FloatLabel([node EXCEPT !.name = env]), file))
    ELSE IF node.type = "environment" /\ node.name \in {"macro", "environment"}
    THEN Produced(MkElement("Environment", node.name, FloatLabel(node), file))
    ELSE IF node.type \in {"environment", "mathenv"} /\ node.name \in Envs
    THEN Produced(MkElement("Environment", node.name, <<Str(Capitalize(node.name))>>, file))
    ELSE IF node.type = "macro"
            /\ node.name \in InputMacros \cup ImportMacros \cup SubImportMacros
    THEN SubFileElement(node, file, sub)
    ELSE NoElement

\* ---------------------------------------------------------------- state
VARIABLES
    pc,         \* where construct is
    rootFile,   \* lw.manager.rootFile
    filePath,   \* construct's filePath, after the ?? of its first line
    subFile,    \* construct's subFile argument (config.subFile)
    source,     \* what the content/AST source holds, per file read so far
    stack,      \* the constructFile calls in progress, innermost last
    structs,    \* FileStructureCache: file path -> element list
    heap,       \* the TeXElement objects
    tree,       \* construct's struct: [def, list]
    entered,    \* per file, how often the walk of constructFile was begun
    numbering,  \* the numbering settings construct has read: [floats, numbers]
    rnwFiles    \* the files whose content may hold legacy child directives

vars == <<pc, rootFile, filePath, subFile, source, stack, structs, heap, tree, entered,
          numbering, rnwFiles>>

\* undefined / an element list, for construct's struct.
Undef == [def |-> FALSE, list |-> <<>>]
List(l) == [def |-> TRUE, list |-> l]

\* One constructFile call.  phase: enter (the cache check), wait (the poll
\* loop), get (the reads after it), walk (the loop over the nodes).  pos:
\* the place in the file's AST of the next parseNode call.  roots: per node
\* visited, the root its content is walked with (0: rootElement).
\* children: rootElement.children.  rnwSub: the child directives not
\* popped yet.  pend: where the parseNode call in progress waits for a
\* constructFile call (at: "macro", line 217, 231 or 246; "rnw", line 264;
\* "": nowhere), with the node's element, not pushed yet (el = 0: none),
\* and its root.
NoPend == [el |-> 0, root |-> 0, at |-> ""]
Frame(file) ==
    [file |-> file, phase |-> "enter", waited |-> 0, pos |-> 1, roots |-> <<>>,
     children |-> <<>>, rnwSub |-> <<>>, pend |-> NoPend]

Top == stack[Len(stack)]
SetTop(f) == [stack EXCEPT ![Len(stack)] = f]

\* root.children.push(el) for the call frame f
PushChild(f, h, root, el) ==
    IF root = 0
    THEN [f |-> [f EXCEPT !.children = Append(@, el)], h |-> h]
    ELSE [f |-> f, h |-> [h EXCEPT ![root].children = Append(@, el)]]

\* The nodes read so far, over all files.
RECURSIVE NodesRead(_, _)
NodesRead(src, fs) ==
    IF fs = {} THEN 0
    ELSE LET f == CHOOSE x \in fs : TRUE
         IN Len(src[f].ast) + NodesRead(src, fs \ {f})

Init ==
    /\ pc = "idle"
    /\ rootFile \in Files \cup {NoFile}
    /\ filePath = NoFile
    /\ subFile = TRUE
    /\ source = <<>>
    /\ stack = <<>>
    /\ structs = <<>>
    /\ heap = <<>>
    /\ tree = Undef
    /\ entered = [f \in Files |-> 0]
    /\ numbering = [floats |-> FALSE, numbers |-> FALSE]
    /\ rnwFiles = {}

\* construct, to the call of constructFile (lines 28-36).  File paths are
\* interchangeable: the file constructed is "A", when there is one.
Construct(fp, sf) ==
    /\ pc = "idle"
    /\ subFile' = sf
    /\ LET p == IF fp # NoFile THEN fp ELSE rootFile IN
       /\ p \in {"A", NoFile}
       /\ filePath' = p
       /\ IF p = NoFile
          THEN /\ pc' = "returned"
               /\ tree' = List(<<>>)
               /\ stack' = stack
          ELSE /\ pc' = "extract"
               /\ tree' = tree
               /\ stack' = <<Frame(p)>>
    /\ UNCHANGED <<rootFile, source, structs, heap, entered, numbering, rnwFiles>>

\* attributes.lineFr of the node that the parseNode call in progress of
\* frame f visits (pos is already past it).
LineFr(f) == f.pos - 1

\* Lines 268-271 for the call frame f: the node's element el, when there is
\* one, is pushed to its root.  call: the file of the constructFile call
\* awaited next (NoFile: none).
PushElement(f, h, root, el) ==
    LET g == [f EXCEPT !.pend = NoPend]
        r == IF el = 0 THEN [f |-> g, h |-> h] ELSE PushChild(g, h, root, el)
    IN [f |-> r.f, h |-> r.h, call |-> NoFile]

\* The test of line 251.
RnwDue(f) ==
    f.rnwSub # <<>> /\ f.rnwSub[Len(f.rnwSub)].line >= LineFr(f)

\* Lines 251-271 for the call frame f, where el is the node's element (0:
\* none): the last child directive is popped and its element pushed to
\* root; with config.subFile the call waits for constructFile (line 264)
\* before it pushes el.
RnwStep(f, h, root, el) ==
    IF RnwDue(f)
    THEN LET rnw == f.rnwSub[Len(f.rnwSub)]
             id == Len(h) + 1
             child == MkElement("SubFile", "RnwChild",
                                <<Str(IF subFile THEN rnw.subFile ELSE ArgOf(rnw.subFile))>>,
                                f.file)
             r == PushChild([f EXCEPT !.rnwSub = SubSeq(@, 1, Len(@) - 1)],
                            Append(h, child), root, id)
         IN IF subFile
            THEN [f |-> [r.f EXCEPT !.pend = [el |-> el, root |-> root, at |-> "rnw"]],
                  h |-> r.h, call |-> rnw.subFile]
            ELSE PushElement(r.f, r.h, root, el)
    ELSE PushElement(f, h, root, el)

\* The frames below the innermost one become below, with its last frame
\* as step.f leaves it; step.call is called when it names a file.
Proceed(below, step) ==
    LET s1 == [below EXCEPT ![Len(below)] = step.f] IN
    /\ heap' = step.h
    /\ IF step.call = NoFile
       THEN /\ stack' = s1
            /\ pc' = pc
       ELSE /\ stack' = Append(s1, Frame(step.call))
            /\ pc' = IF Len(s1) < MaxDepth THEN pc ELSE "recursing"

\* A constructFile call returns: the caller, waiting at its await, goes on
\* (at line 251 after the call of an inclusion macro, at line 268 after the
\* call of line 264; a macro has no node content to walk), or construct
\* goes on at line 37.
Return(st) ==
    LET rest == SubSeq(stack, 1, Len(stack) - 1) IN
    /\ structs' = st
    /\ IF rest = <<>>
       THEN /\ stack' = rest
            /\ heap' = heap
            /\ pc' = "splice"
       ELSE LET f == rest[Len(rest)] IN
            Proceed(rest, IF f.pend.at = "macro"
                          THEN RnwStep(f, heap, f.pend.root, f.pend.el)
                          ELSE PushElement(f, heap, f.pend.root, f.pend.el))

\* Lines 53-63: the cache check, then the open editor.
CF_Enter ==
    /\ pc = "extract"
    /\ Top.phase = "enter"
    /\ IF Top.file \in DOMAIN structs
       THEN Return(structs)
       ELSE /\ \E dirty \in BOOLEAN :
                stack' = SetTop([Top EXCEPT !.phase = IF dirty THEN "get" ELSE "wait"])
            /\ UNCHANGED <<structs, heap, pc>>
    /\ UNCHANGED <<rootFile, filePath, subFile, source, tree, entered, numbering, rnwFiles>>

\* Lines 64-74: one test of the loop, and its body when the test holds.
\* waited is the loop's own: it is gone when the test ends the loop, and
\* is 20 at the await of refreshCache.
CF_Poll ==
    /\ pc = "extract"
    /\ Top.phase = "wait"
    /\ \E cached \in BOOLEAN :
        IF cached
        THEN stack' = SetTop([Top EXCEPT !.phase = "get", !.waited = 0])
        ELSE LET w == Top.waited + 1 IN
             stack' = SetTop([Top EXCEPT !.waited = w,
                                         !.phase = IF w >= MaxWait THEN "get" ELSE "wait"])
    /\ UNCHANGED <<pc, rootFile, filePath, subFile, source, structs, heap, tree, entered, numbering, rnwFiles>>

\* Lines 75-88: the reads, the check of line 79, the start of the walk.
CF_Get ==
    /\ pc = "extract"
    /\ Top.phase = "get"
    /\ \E doc \in IF Top.file \in DOMAIN source
                  THEN {source[Top.file]}
                  ELSE {Absent} \cup
                       {[Present EXCEPT !.rnw = q] :
                           q \in IF Top.file \in rnwFiles THEN RnwQueues ELSE {<<>>}} :
        /\ source' = (Top.file :> doc) @@ source
        /\ IF ~doc.ok
           THEN /\ Return(structs)
                /\ entered' = entered
           ELSE /\ stack' = SetTop([Top EXCEPT !.phase = "walk", !.waited = 0,
                                               !.rnwSub = doc.rnw])
                /\ entered' = [entered EXCEPT ![Top.file] = @ + 1]
                /\ UNCHANGED <<structs, heap, pc>>
    /\ UNCHANGED <<rootFile, filePath, subFile, tree, numbering, rnwFiles>>

\* The document's next node, when the run has not read it yet: any node at
\* any open place, or the end of the document.
NextNodes(src) ==
    IF NodesRead(src, DOMAIN src) < MaxNodes
    THEN UNION {Nodes(p) : p \in Open(src[Top.file].ast)}
    ELSE {}

\* One parseNode call (lines 137-277) on node, up to its await of
\* constructFile when it makes one.
ParseNode(node) ==
    LET c == Classify(node, Top.file, subFile)
        id == Len(heap) + 1
        root == IF node.parent = 0 THEN 0 ELSE Top.roots[node.parent]
        el == IF c.has THEN id ELSE 0
        h1 == IF c.has THEN Append(heap, c.el) ELSE heap
        f1 == [Top EXCEPT !.pos = @ + 1, !.roots = Append(@, IF c.has THEN id ELSE root)]
    IN Proceed(stack,
               IF c.has /\ c.el.type = "SubFile" /\ subFile
               THEN [f |-> [f1 EXCEPT !.pend = [el |-> el, root |-> root, at |-> "macro"]],
                     h |-> h1, call |-> node.target]
               ELSE RnwStep(f1, h1, root, el))

\* The loop of lines 89-91 and of lines 272-276: the next node is parsed.
CF_Node ==
    /\ pc = "extract"
    /\ Top.phase = "walk"
    /\ LET src == source[Top.file] IN
       IF Top.pos <= Len(src.ast)
       THEN /\ ParseNode(src.ast[Top.pos])
            /\ source' = source
       ELSE /\ ~src.done
            /\ \/ \E node \in NextNodes(source) :
                    /\ ParseNode(node)
                    /\ source' = [source EXCEPT ![Top.file].ast = Append(@, node)]
               \/ /\ source' = [source EXCEPT ![Top.file].done = TRUE]
                  /\ UNCHANGED <<heap, stack, pc>>
    /\ UNCHANGED <<rootFile, filePath, subFile, structs, tree, entered, numbering, rnwFiles>>

\* Line 93, after the loop: structs[filePath] = rootElement.children.
CF_Return ==
    /\ pc = "extract"
    /\ Top.phase = "walk"
    /\ Top.pos > Len(source[Top.file].ast)
    /\ source[Top.file].done
    /\ Return((Top.file :> Top.children) @@ structs)
    /\ UNCHANGED <<rootFile, filePath, subFile, source, tree, entered, numbering, rnwFiles>>

\* ------------------------------------------------------- the tree passes
\* Each pass takes the heap and returns the heap it leaves (h) with what
\* the function returns (r).

\* structs[label], when it is set.
Cached(st, label) ==
    Len(label) = 1 /\ label[1].k = "str" /\ label[1].s \in DOMAIN st

\* insertSubFile's loop from struct[i] on (lines 284-295).
RECURSIVE insertSubFileFrom(_, _, _, _, _, _)
insertSubFileFrom(h, st, root, struct, i, elements) ==
    IF root = NoFile THEN [h |-> h, r |-> <<>>]
    ELSE IF i > Len(struct) THEN [h |-> h, r |-> elements]
    ELSE LET e == struct[i] IN
         IF h[e].type = "SubFile" /\ Cached(st, h[e].label)
         THEN LET sub == insertSubFileFrom(h, st, root, st[h[e].label[1].s], 1, <<>>)
              IN insertSubFileFrom(sub.h, st, root, struct, i + 1, elements \o sub.r)
         ELSE LET h1 == IF Len(h[e].children) > 0
                        THEN LET c == insertSubFileFrom(h, st, root, h[e].children, 1, <<>>)
                             IN [c.h EXCEPT ![e].children = c.r]
                        ELSE h
              IN insertSubFileFrom(h1, st, root, struct, i + 1, Append(elements, e))

\* insertSubFile(structs): struct is structs[lw.manager.rootFile] ?? [].
insertSubFile(h, st, root) ==
    insertSubFileFrom(h, st, root, IF root \in DOMAIN st THEN st[root] ELSE <<>>, 1, <<>>)

IsSection(el) == el.type \in {"Section", "SectionAst"}

\* nestNonSection's loop from struct[i] on; cur is currentSection (0:
\* undefined).  path holds the elements whose children the calls in
\* progress are nesting: a call on the children of one of them repeats
\* without end, and the call stack overflows (err).
RECURSIVE nestNonSectionFrom(_, _, _, _, _, _)
nestNonSectionFrom(h, struct, i, elements, cur, path) ==
    IF i > Len(struct) THEN [h |-> h, r |-> elements, err |-> FALSE]
    ELSE LET e == struct[i]
             sec == IsSection(h[e])
             elements1 == IF sec \/ cur = 0 THEN Append(elements, e) ELSE elements
             h1 == IF ~sec /\ cur # 0
                   THEN [h EXCEPT ![cur].children = Append(@, e)]
                   ELSE h
         IN IF Len(h1[e].children) > 0 /\ e \in path
            THEN [h |-> h1, r |-> elements1, err |-> TRUE]
            ELSE LET c == IF Len(h1[e].children) > 0
                          THEN nestNonSectionFrom(h1, h1[e].children, 1, <<>>, 0,
                                                  path \cup {e})
                          ELSE [h |-> h1, r |-> <<>>, err |-> FALSE]
                     h2 == IF Len(h1[e].children) > 0
                           THEN [c.h EXCEPT ![e].children = c.r]
                           ELSE h1
                 IN IF c.err THEN c
                    ELSE nestNonSectionFrom(h2, struct, i + 1, elements1,
                                            IF sec THEN e ELSE cur, path)

nestNonSection(h, struct) == nestNonSectionFrom(h, struct, 1, <<>>, 0, {})

Rank(h, e) == secIndex(h[e].name)

\* PopWhile with < for <=: a section is left on the stack under one of its
\* own rank.
RECURSIVE PopWhileStrict(_, _, _)
PopWhileStrict(h, stk, rank) ==
    IF stk = <<>> THEN [stk |-> stk, err |-> TRUE]
    ELSE IF rank # NoRank /\ Rank(h, stk[Len(stk)]) # NoRank /\ rank < Rank(h, stk[Len(stk)])
    THEN PopWhileStrict(h, SubSeq(stk, 1, Len(stk) - 1), rank)
    ELSE [stk |-> stk, err |-> FALSE]

\* The while of line 334: pop while rank <= the rank of the stack's last.
\* An emptied stack makes stack[stack.length - 1].name throw.
RECURSIVE PopWhile(_, _, _)
PopWhile(h, stk, rank) ==
    IF stk = <<>> THEN [stk |-> stk, err |-> TRUE]
    ELSE IF RankLeq(rank, Rank(h, stk[Len(stk)]))
    THEN PopWhile(h, SubSeq(stk, 1, Len(stk) - 1), rank)
    ELSE [stk |-> stk, err |-> FALSE]

\* nestSection's loop from struct[i] on.
RECURSIVE nestSectionFrom(_, _, _, _, _)
nestSectionFrom(h, struct, i, stk, elements) ==
    IF i > Len(struct) THEN [h |-> h, r |-> elements, err |-> FALSE]
    ELSE LET e == struct[i] IN
         IF ~IsSection(h[e]) /\ h[e].type # "SubFile"
         THEN nestSectionFrom(h, struct, i + 1, stk, Append(elements, e))
         ELSE IF stk = <<>>
         THEN nestSectionFrom(h, struct, i + 1, <<e>>, Append(elements, e))
         ELSE IF RankLeq(Rank(h, e), Rank(h, stk[1]))
         THEN nestSectionFrom(h, struct, i + 1, <<e>>, Append(elements, e))
         ELSE IF RankGt(Rank(h, e), Rank(h, stk[Len(stk)]))
         THEN nestSectionFrom([h EXCEPT ![stk[Len(stk)]].children = Append(@, e)],
                              struct, i + 1, Append(stk, e), elements)
         ELSE LET p == PopWhile(h, stk, Rank(h, e)) IN
              IF p.err THEN [h |-> h, r |-> elements, err |-> TRUE]
              ELSE nestSectionFrom([h EXCEPT ![p.stk[Len(p.stk)]].children = Append(@, e)],
                                   struct, i + 1, Append(p.stk, e), elements)

nestSection(h, struct) == nestSectionFrom(h, struct, 1, <<>>, <<>>)

\* counter[key] ?? 0
Count(counter, key) == IF key \in DOMAIN counter THEN counter[key] ELSE 0

\* Lines 348-350: the number goes to the end of the part before the first ':'.
NumberedLabel(label, n) ==
    LET parts == Split(label)
    IN Join([parts EXCEPT ![1] = @ \o <<Num(n)>>])

\* addFloatNumber's loop from struct[i] on; counter is shared by all levels.
\* path and err are as in nestNonSectionFrom.
RECURSIVE addFloatNumberFrom(_, _, _, _, _)
addFloatNumberFrom(h, struct, i, counter, path) ==
    IF i > Len(struct) THEN [h |-> h, counter |-> counter, err |-> FALSE]
    ELSE LET e == struct[i]
             float == h[e].type = "Environment" /\ h[e].name \notin {"macro", "environment"}
             n == Count(counter, h[e].name) + 1
             counter1 == IF float THEN (h[e].name :> n) @@ counter ELSE counter
             h1 == IF float THEN [h EXCEPT ![e].label = NumberedLabel(@, n)] ELSE h
         IN IF Len(h1[e].children) > 0 /\ e \in path
            THEN [h |-> h1, counter |-> counter1, err |-> TRUE]
            ELSE LET sub == IF Len(h1[e].children) > 0
                            THEN addFloatNumberFrom(h1, h1[e].children, 1, counter1,
                                                    path \cup {e})
                            ELSE [h |-> h1, counter |-> counter1, err |-> FALSE]
                 IN IF sub.err THEN sub
                    ELSE addFloatNumberFrom(sub.h, struct, i + 1, sub.counter, path)

addFloatNumber(h, struct) == addFloatNumberFrom(h, struct, 1, <<>>, {})

\* '0.'.repeat(n), as the numbers between the dots
RECURSIVE Zeros(_)
Zeros(n) == IF n <= 0 THEN <<>> ELSE <<0>> \o Zeros(n - 1)

\* Math.min over the ranks of the elements that have one (lines 361-363).
Lowest(h, struct) ==
    LET ranks == {Rank(h, struct[i]) : i \in 1..Len(struct)} \ {NoRank}
    IN IF ranks = {} THEN NoRank ELSE CHOOSE r \in ranks : \A q \in ranks : r <= q

\* addSectionNumber's loop from struct[i] on.  tag is the numbers of the
\* prefix, each followed by a dot.  err: String.repeat of a negative count,
\* or toString of an undefined counter, threw.
RECURSIVE addSectionNumberFrom(_, _, _, _, _, _)
addSectionNumberFrom(h, struct, i, tag, lowest, counter) ==
    IF i > Len(struct) THEN [h |-> h, err |-> FALSE]
    ELSE LET e == struct[i]
             rank == Rank(h, e)
         IN IF rank = NoRank
            THEN addSectionNumberFrom(h, struct, i + 1, tag, lowest, counter)
            ELSE LET counter1 == IF h[e].type = "Section"
                                 THEN (rank :> (Count(counter, rank) + 1)) @@ counter
                                 ELSE counter
                 IN IF rank - lowest < 0 \/ rank \notin DOMAIN counter1
                    THEN [h |-> h, err |-> TRUE]
                    ELSE LET sectionNumber == tag \o Zeros(rank - lowest) \o <<counter1[rank]>>
                             h1 == [h EXCEPT ![e].label =
                                       <<IF h[e].type = "Section"
                                         THEN SecNum(sectionNumber) ELSE StarTok>> \o @]
                             sub == IF Len(h1[e].children) > 0
                                    THEN addSectionNumberFrom(h1, h1[e].children, 1,
                                                              sectionNumber, rank + 1, <<>>)
                                    ELSE [h |-> h1, err |-> FALSE]
                         IN IF sub.err THEN sub
                            ELSE addSectionNumberFrom(sub.h, struct, i + 1, tag, lowest, counter1)

addSectionNumber(h, struct) ==
    addSectionNumberFrom(h, struct, 1, <<>>, Lowest(h, struct), <<>>)

\* ------------------------------------------------- construct, lines 37-47
\* Line 37.
Splice ==
    /\ pc = "splice"
    /\ IF subFile
       THEN LET s == insertSubFile(heap, structs, rootFile) IN
            /\ heap' = s.h
            /\ tree' = List(s.r)
       ELSE /\ heap' = heap
            /\ tree' = IF filePath \in DOMAIN structs THEN List(structs[filePath]) ELSE Undef
    /\ pc' = "nestNonSection"
    /\ UNCHANGED <<rootFile, filePath, subFile, source, stack, structs, entered, numbering, rnwFiles>>

\* Line 38; for ... of undefined throws.
NestNonSection ==
    /\ pc = "nestNonSection"
    /\ IF tree.def /\ ~nestNonSection(heap, tree.list).err
       THEN LET s == nestNonSection(heap, tree.list) IN
            /\ heap' = s.h
            /\ tree' = List(s.r)
            /\ pc' = "nestSection"
       ELSE /\ pc' = "threw nestNonSection"
            /\ UNCHANGED <<heap, tree>>
    /\ UNCHANGED <<rootFile, filePath, subFile, source, stack, structs, entered, numbering, rnwFiles>>

\* Line 39.
NestSection ==
    /\ pc = "nestSection"
    /\ LET s == nestSection(heap, tree.list) IN
       IF s.err
       THEN /\ pc' = "threw nestSection"
            /\ UNCHANGED <<heap, tree>>
       ELSE /\ heap' = s.h
            /\ tree' = List(s.r)
            /\ pc' = "floatNumber"
    /\ UNCHANGED <<rootFile, filePath, subFile, source, stack, structs, entered, numbering, rnwFiles>>

\* Lines 40-43; enabled is 'view.outline.floats.number.enabled'.
AddFloatNumber ==
    /\ pc = "floatNumber"
    /\ \E enabled \in BOOLEAN :
        /\ numbering' = [numbering EXCEPT !.floats = enabled]
        /\ IF subFile /\ enabled
           THEN LET s == addFloatNumber(heap, tree.list) IN
                /\ heap' = s.h
                /\ pc' = IF s.err THEN "threw addFloatNumber" ELSE "sectionNumber"
           ELSE /\ heap' = heap
                /\ pc' = "sectionNumber"
    /\ UNCHANGED <<rootFile, filePath, subFile, source, stack, structs, tree, entered, rnwFiles>>

\* Lines 44-47; enabled is 'view.outline.numbers.enabled'.
AddSectionNumber ==
    /\ pc = "sectionNumber"
    /\ \E enabled \in BOOLEAN :
        /\ numbering' = [numbering EXCEPT !.numbers = enabled]
        /\ IF subFile /\ enabled
           THEN LET s == addSectionNumber(heap, tree.list) IN
                /\ heap' = s.h
                /\ pc' = IF s.err THEN "threw addSectionNumber" ELSE "returned"
           ELSE /\ heap' = heap
                /\ pc' = "returned"
    /\ UNCHANGED <<rootFile, filePath, subFile, source, stack, structs, tree, entered, rnwFiles>>

Next ==
    \/ \E fp \in {"A", NoFile}, sf \in BOOLEAN : Construct(fp, sf)
    \/ CF_Enter
    \/ CF_Poll
    \/ CF_Get
    \/ CF_Node
    \/ CF_Return
    \/ Splice
    \/ NestNonSection
    \/ NestSection
    \/ AddFloatNumber
    \/ AddSectionNumber

Spec == Init /\ [][Next]_vars

\* The runs in which one file may hold legacy child directives.
RnwInit ==
    /\ pc = "idle"
    /\ rootFile \in Files \cup {NoFile}
    /\ filePath = NoFile
    /\ subFile = TRUE
    /\ source = <<>>
    /\ stack = <<>>
    /\ structs = <<>>
    /\ heap = <<>>
    /\ tree = Undef
    /\ entered = [f \in Files |-> 0]
    /\ numbering = [floats |-> FALSE, numbers |-> FALSE]
    /\ rnwFiles \in {{f} : f \in Files}
RnwSpec == RnwInit /\ [][Next]_vars

\* construct is an async function on the event loop: a step that can be
\* taken is taken.
FairSpec == Spec /\ WF_vars(Next)

\* ------------------------------------------------------------ the claims
\* The elements of a forest in document order: each element, then its
\* children.  An element met again below itself is listed and not entered.
RECURSIVE FlattenOn(_, _, _)
FlattenOn(h, list, path) ==
    IF list = <<>> THEN <<>>
    ELSE LET e == Head(list) IN
         <<e>> \o (IF e \in path THEN <<>> ELSE FlattenOn(h, h[e].children, path \cup {e}))
               \o FlattenOn(h, Tail(list), path)
Flatten(h, list) == FlattenOn(h, list, {})

Range(q) == {q[i] : i \in 1..Len(q)}
NoDuplicates(q) == \A i, j \in 1..Len(q) : q[i] = q[j] => i = j
\* The elements of construct's struct, at any depth.
RECURSIVE ReachFrom(_, _, _)
ReachFrom(h, frontier, seen) ==
    IF frontier \subseteq seen THEN seen
    ELSE ReachFrom(h, UNION {Range(h[e].children) : e \in frontier \ seen},
                   seen \cup frontier)
InTree == ReachFrom(heap, Range(tree.list), {})
Threw == {"threw nestNonSection", "threw nestSection", "threw addFloatNumber",
          "threw addSectionNumber"}

\* C1: in a run with mergeSubFiles = true, the walk of constructFile is
\* begun at most once per file, whatever includes what.
C1_WalkedOncePerFile == subFile => \A f \in Files : entered[f] <= 1

\* C2: every construct run comes to its end, and no wait loop makes more
\* than 20 delays.
C2_ConstructEnds ==
    /\ <>(pc \in {"returned"} \cup Threw)
    /\ [](\A i \in 1..Len(stack) : stack[i].waited <= MaxWait)

\* C3: after nestSection, a section that is the child of a section has a
\* rank above its parent's.
C3_ChildRankAboveParent ==
    pc \in {"floatNumber", "sectionNumber", "returned"} =>
        \A e \in InTree : \A i \in 1..Len(heap[e].children) :
            IsSection(heap[e]) /\ IsSection(heap[heap[e].children[i]])
                => Rank(heap, heap[e].children[i]) > Rank(heap, e)

\* C3's case: nestSection has popped its stack: a section holds two child
\* sections, the second of a lower rank than the first.
C3_Witness ==
    /\ pc = "floatNumber"
    /\ \E e \in InTree : \E i, j \in 1..Len(heap[e].children) :
        /\ i < j
        /\ IsSection(heap[e])
        /\ IsSection(heap[heap[e].children[i]])
        /\ IsSection(heap[heap[e].children[j]])
        /\ Rank(heap, heap[e].children[i]) > Rank(heap, heap[e].children[j])

\* C4: in the tree construct returns, every element is at one place only.
C4_ElementAtOnePlace ==
    pc = "returned" => NoDuplicates(Flatten(heap, tree.list))

\* The places, in document order, of the Environment elements named name.
FloatPlaces(q, name) ==
    SelectSeq([i \in 1..Len(q) |-> i],
              LAMBDA i : heap[q[i]].type = "Environment" /\ heap[q[i]].name = name)

\* C5: after float numbering, the k-th Environment element of a name, in
\* document order, carries the number k, once, before its first ':'.
C5_FloatsNumberedInOrder ==
    (pc = "sectionNumber" /\ subFile /\ numbering.floats) =>
        LET q == Flatten(heap, tree.list) IN
        \A name \in {"figure", "table", "frame"} :
            LET places == FloatPlaces(q, name) IN
            \A k \in 1..Len(places) :
                LET label == heap[q[places[k]]].label IN
                /\ Len(label) >= 2
                /\ label[1] = Str(Capitalize(name))
                /\ label[2] = Num(k)
                /\ Len(label) > 2 => label[3] = Colon
                /\ \A i \in 3..Len(label) : label[i].k # "num"

\* How many of list[1..i] are non-starred sections of list[i]'s rank.
NthOfRank(h, list, i) ==
    Cardinality({j \in 1..i : h[list[j]].type = "Section"
                              /\ Rank(h, list[j]) = Rank(h, list[i])})

\* The non-starred sections of list, and those under them, are labelled
\* with prefix + '0.' x (rank - lowest) + k.
RECURSIVE NumberedFrom(_, _, _, _)
NumberedFrom(h, list, prefix, lowest) ==
    \A i \in 1..Len(list) :
        h[list[i]].type = "Section" =>
            LET number == prefix \o Zeros(Rank(h, list[i]) - lowest)
                                 \o <<NthOfRank(h, list, i)>>
            IN /\ h[list[i]].label = <<SecNum(number), Str("title")>>
               /\ NumberedFrom(h, h[list[i]].children, number, Rank(h, list[i]) + 1)

\* C6: after section numbering, the k-th non-starred section of rank r of a
\* scope is numbered prefix + '0.' x (r - lowest) + k; at the top the prefix
\* is empty and lowest is the least rank there, under a section numbered P
\* of rank p the prefix is P + '.' and lowest is p + 1.
C6_SectionsNumbered ==
    (pc = "returned" /\ subFile /\ numbering.numbers) =>
        NumberedFrom(heap, tree.list, <<>>, Lowest(heap, tree.list))

\* C7: section numbering never throws, and a starred section's label is
\* '* ' before what it was.
C7_StarredNumberedWithoutError ==
    /\ pc # "threw addSectionNumber"
    /\ (pc = "returned" /\ subFile /\ numbering.numbers) =>
           \A i \in 1..Len(tree.list) :
               heap[tree.list[i]].type = "SectionAst"
                   => heap[tree.list[i]].label = <<StarTok, Str("title")>>

\* C8: with mergeSubFiles = false, every SubFile element of the returned
\* tree is a leaf.
C8_SubFileIsLeaf ==
    (pc = "returned" /\ ~subFile) =>
        \A e \in InTree : heap[e].type = "SubFile" => heap[e].children = <<>>

\* C9: a run in which a file's content or AST is absent does not throw.
C9_AbsentSourceDoesNotThrow ==
    (\E f \in DOMAIN source : ~source[f].ok) => pc \notin Threw

\* C10: with mergeSubFiles = true, what line 37 assembles is what it
\* assembles when the ambient root file is the file constructed, and the
\* returned tree is empty only if that is.
C10_TreeOfConstructedFile ==
    /\ (pc = "nestNonSection" /\ subFile)
           => tree.list = insertSubFile(heap, structs, filePath).r
    /\ (pc = "returned" /\ subFile /\ tree.list = <<>>)
           => insertSubFile(heap, structs, filePath).r = <<>>

\* The place of the first section of list c after place i (Len(c) + 1: none).
NextSection(h, c, i) ==
    IF \E j \in (i + 1)..Len(c) : IsSection(h[c[j]])
    THEN CHOOSE j \in (i + 1)..Len(c) :
            IsSection(h[c[j]]) /\ \A k \in (i + 1)..(j - 1) : ~IsSection(h[c[k]])
    ELSE Len(c) + 1
\* The elements of c between place i and the next section.
Followers(h, c, i) == SubSeq(c, i + 1, NextSection(h, c, i) - 1)
\* What a scope is to become: the elements before the first section, then
\* the sections in their order.
Arranged(h, c) == Followers(h, c, 0) \o SelectSeq(c, LAMBDA e : IsSection(h[e]))
\* How often e is in q.
Occurrences(q, e) == Cardinality({i \in 1..Len(q) : q[i] = e})

\* C11: nestNonSection returns the elements before the first section, then
\* the sections in their order; in every scope (the list, and the children
\* of every element below it) a section gets the elements between it and
\* the next section of its scope as its last children, in their order, and
\* no elements of another scope; no element is lost or duplicated.
C11_NonSectionsUnderPrecedingSection ==
    [][(pc = "nestNonSection" /\ pc' = "nestSection") =>
        LET below == ReachFrom(heap, Range(tree.list), {})
            Scopes == {tree.list} \cup {heap[e].children : e \in below}
        IN /\ tree'.list = Arranged(heap, tree.list)
           /\ \A c \in Scopes : \A i \in 1..Len(c) :
                 heap'[c[i]].children =
                     Arranged(heap, heap[c[i]].children)
                     \o (IF IsSection(heap[c[i]]) THEN Followers(heap, c, i) ELSE <<>>)
           /\ \A e \in 1..Len(heap) :
                 Occurrences(Flatten(heap', tree'.list), e)
                     = Occurrences(Flatten(heap, tree.list), e)
      ]_vars

\* C12: during the walk of a file, a child directive is popped (and its
\* element inserted) only at a node that starts on the directive's line or
\* on a later one.
C12_DirectivePoppedAtOrAfterItsLine ==
    [][\A i \in 1..Len(stack) :
          (/\ i <= Len(stack')
           /\ stack[i].phase = "walk" /\ stack'[i].phase = "walk"
           /\ stack'[i].file = stack[i].file
           /\ Len(stack'[i].rnwSub) < Len(stack[i].rnwSub))
          => stack[i].rnwSub[Len(stack[i].rnwSub)].line <= LineFr(stack'[i])
      ]_vars

====
